---- MODULE Spec2Model ----
(***************************************************************************)
(* VFS automatic mounts: lib/vfscore/automount.c                           *)
(*                                                                         *)
(* The model covers the builds in which the file compiles with the initrd  *)
(* loader present (CONFIG_LIBVFSCORE_AUTOMOUNT_ROOTFS, CONFIG_LIBUKCPIO    *)
(* and CONFIG_LIBRAMFS set).  CONFIG_LIBVFSCORE_ROOTFS_EINITRD and         *)
(* CONFIG_LIBVFSCORE_FSTAB are build choices held in the variable config.  *)
(* vfscore_mount_initrd_volume is only compiled when EINITRD is off        *)
(* (lines 199-219) while the fstab loop calls it (line 286), so a build    *)
(* with both EINITRD and FSTAB does not link: config never has both.       *)
(*                                                                         *)
(* C strings are sequences of one-character strings; a buffer holds its    *)
(* terminating NUL, a char pointer is a buffer id and a 1-based offset.    *)
(***************************************************************************)
EXTENDS Integers, Sequences, FiniteSets, TLC

\* ------------------------------------------------------------------ bounds

\* CONFIG_LIBVFSCORE_FSTAB_SIZE, the capacity of vfscore_fstab (line 81).
FSTAB_SIZE == 3

\* Longest entry string drawn by InitStr.
MaxLen == 7

\* Longest flags field drawn by InitNum.
MaxDigits == 4

\* ------------------------------------------------------- characters, strings

NUL == "NUL"
SEP == ":"

\* The string a NULL char pointer stands for when a call's arguments are
\* recorded (no C string contains this element).
NoStr == <<"(null)">>

NULL == [buf |-> -1, off |-> 0]

\* Buffer id of the indeterminate memory an uninitialised pointer may hold.
JunkBuf == FSTAB_SIZE
JunkMem == <<"?", NUL>>

Min(S) == CHOOSE x \in S : \A y \in S : x <= y

\* Offset of the terminator of the C string starting at offset from.
StrEnd(buf, from) == Min({j \in from..Len(buf) : buf[j] = NUL})

\* The C string starting at offset from of buf (terminator excluded).
CStrAt(buf, from) == SubSeq(buf, from, StrEnd(buf, from) - 1)

\* strchr(buf + from, c) for c # NUL: offset of the first c, 0 if none.
strchr(buf, from, c) ==
    LET hits == {j \in from..(StrEnd(buf, from) - 1) : buf[j] = c}
    IN  IF hits = {} THEN 0 ELSE Min(hits)

\* strncmp(s, lit, n) = 0 for a literal lit of at least n characters.
strncmp_eq(s, lit, n) ==
    /\ Len(s) >= n
    /\ \A j \in 1..n : s[j] = lit[j]

INITRD == <<"i", "n", "i", "t", "r", "d">>

\* Variant: the "!" in front of strncmp is missing.
HasInitrdPrefix_inverted(drv) == ~strncmp_eq(drv, INITRD, Len(INITRD))

HasInitrdPrefix(drv) == strncmp_eq(drv, INITRD, Len(INITRD))

\* ------------------------------------------------------------------- strtol

IsSpace(c) == c \in {" ", "\t", "\n"}

DigitVal(c) ==
    CASE c = "0" -> 0  [] c = "1" -> 1  [] c = "2" -> 2  [] c = "3" -> 3
      [] c = "4" -> 4  [] c = "5" -> 5  [] c = "6" -> 6  [] c = "7" -> 7
      [] c = "8" -> 8  [] c = "9" -> 9
      [] c \in {"a", "A"} -> 10  [] c \in {"b", "B"} -> 11
      [] c \in {"c", "C"} -> 12  [] c \in {"d", "D"} -> 13
      [] c \in {"e", "E"} -> 14  [] c \in {"f", "F"} -> 15
      [] OTHER -> 99

RECURSIVE SkipSpace(_)
SkipSpace(s) ==
    IF s # << >> /\ IsSpace(Head(s)) THEN SkipSpace(Tail(s)) ELSE s

\* Value of the longest prefix of s made of digits of the base, after acc.
RECURSIVE Digits(_, _, _)
Digits(s, base, acc) ==
    IF s # << >> /\ DigitVal(Head(s)) < base
    THEN Digits(Tail(s), base, acc * base + DigitVal(Head(s)))
    ELSE acc

\* Variant: strtol(s, NULL, 10), no base detection.
strtol0_base10(s) ==
    LET t    == SkipSpace(s)
        neg  == t # << >> /\ Head(t) = "-"
        u    == IF t # << >> /\ Head(t) \in {"-", "+"} THEN Tail(t) ELSE t
        v    == Digits(u, 10, 0)
    IN  IF neg THEN 0 - v ELSE v

\* strtol(s, NULL, 0): white space, an optional sign, then 0x/0X for base 16,
\* a leading 0 for base 8, base 10 otherwise; conversion stops at the first
\* character that is no digit of the base.
strtol0_value(s) ==
    LET t    == SkipSpace(s)
        neg  == t # << >> /\ Head(t) = "-"
        u    == IF t # << >> /\ Head(t) \in {"-", "+"} THEN Tail(t) ELSE t
        hex  == /\ Len(u) >= 3
                /\ u[1] = "0"
                /\ u[2] \in {"x", "X"}
                /\ DigitVal(u[3]) < 16
        v    == IF hex THEN Digits(SubSeq(u, 3, Len(u)), 16, 0)
                ELSE IF u # << >> /\ Head(u) = "0" THEN Digits(u, 8, 0)
                ELSE Digits(u, 10, 0)
    IN  IF neg THEN 0 - v ELSE v

\* strtol(s, NULL, 0) with its argument evaluated once.
strtol0(s) == CHOOSE r \in {strtol0_value(t) : t \in {s}} : TRUE

\* ------------------------------------------------------- fstab entry parser

\* UK_ASSERT(x): the process goes on only if x holds, and terminates otherwise.
UK_ASSERT(x) == x

Ptr(k, off) == IF off = 0 THEN NULL ELSE [buf |-> k, off |-> off]

\* Variant: a missing token is handed back as the empty string at the end
\* of the buffer instead of NULL.
next_volume_arg_empty(buf, pos) ==
    IF pos = 0
    THEN [ret |-> Len(buf), pos |-> 0, buf |-> buf]
    ELSE LET q == strchr(buf, pos, SEP)
         IN  IF q # 0 /\ buf[q] # NUL
             THEN [ret |-> pos, pos |-> q + 1, buf |-> [buf EXCEPT ![q] = NUL]]
             ELSE [ret |-> pos, pos |-> 0, buf |-> buf]

\* Variant: the separator is stepped over but not overwritten.
next_volume_arg_nowrite(buf, pos) ==
    IF pos = 0
    THEN [ret |-> 0, pos |-> 0, buf |-> buf]
    ELSE LET q == strchr(buf, pos, SEP)
         IN  IF q # 0 /\ buf[q] # NUL
             THEN [ret |-> pos, pos |-> q + 1, buf |-> buf]
             ELSE [ret |-> pos, pos |-> 0, buf |-> buf]

\* The body of vfscore_fstab_next_volume_arg on the values of its arguments.
next_volume_arg(buf, pos) ==
    IF pos = 0
    THEN [ret |-> 0, pos |-> 0, buf |-> buf]
    ELSE LET q == strchr(buf, pos, SEP)
         IN  IF q # 0 /\ buf[q] # NUL
             THEN [ret |-> pos, pos |-> q + 1, buf |-> [buf EXCEPT ![q] = NUL]]
             ELSE [ret |-> pos, pos |-> 0, buf |-> buf]

\* vfscore_fstab_next_volume_arg(&pos) on buffer buf, pos an offset (0: NULL).
\* Result: the token's offset ret, the new pos and the buffer as left behind.
\* The arguments are evaluated once, as C does before the call.
vfscore_fstab_next_volume_arg(buf, pos) ==
    CHOOSE r \in {next_volume_arg(b, p) : b \in {buf}, p \in {pos}} : TRUE

\* Variant: the options are the rest of the entry after the flags token,
\* without a fifth call of the tokenizer.
fetch_optional_verbatim(buf, pos, k, vv3) ==
    LET a4  == vfscore_fstab_next_volume_arg(buf, pos)
        fl  == IF a4.ret # 0 /\ a4.buf[a4.ret] # NUL
               THEN strtol0(CStrAt(a4.buf, a4.ret))
               ELSE 0
        op  == IF a4.pos # 0 /\ a4.buf[a4.pos] = NUL THEN 0 ELSE a4.pos
    IN  [ok  |-> TRUE,
         vv  |-> [vv3 EXCEPT !.flags = fl, !.opts = Ptr(k, op)],
         buf |-> a4.buf]

\* Variant: an empty options token is kept as a zero-length string.
fetch_optional_keepempty(buf, pos, k, vv3) ==
    LET a4  == vfscore_fstab_next_volume_arg(buf, pos)
        fl  == IF a4.ret # 0 /\ a4.buf[a4.ret] # NUL
               THEN strtol0(CStrAt(a4.buf, a4.ret))
               ELSE 0
        a5  == vfscore_fstab_next_volume_arg(a4.buf, a4.pos)
    IN  [ok  |-> TRUE,
         vv  |-> [vv3 EXCEPT !.flags = fl, !.opts = Ptr(k, a5.ret)],
         buf |-> a5.buf]

\* The optional part of vfscore_fstab_fetch_volume_args (pos is not NULL
\* after the driver): flags, empty meaning 0, then the options, empty meaning
\* NULL.
fetch_optional(buf, pos, k, vv3) ==
    LET a4  == vfscore_fstab_next_volume_arg(buf, pos)
        fl  == IF a4.ret # 0 /\ a4.buf[a4.ret] # NUL
               THEN strtol0(CStrAt(a4.buf, a4.ret))
               ELSE 0
        a5  == vfscore_fstab_next_volume_arg(a4.buf, a4.pos)
        op  == IF a5.ret # 0 /\ a5.buf[a5.ret] = NUL THEN 0 ELSE a5.ret
    IN  [ok  |-> TRUE,
         vv  |-> [vv3 EXCEPT !.flags = fl, !.opts = Ptr(k, op)],
         buf |-> a5.buf]

\* vfscore_fstab_fetch_volume_args(v, &vv), v the buffer of slot k (<< >> for
\* a NULL v) and old the previous content of vv.  ok is FALSE when one of
\* the assertions stopped the process; vv and buf are as left at that point.
\* flags holds the value strtol returned (the unsigned long field keeps its
\* bit pattern).
vfscore_fstab_fetch_volume_args(v, k, old) ==
    IF ~UK_ASSERT(v # << >>) THEN [ok |-> FALSE, vv |-> old, buf |-> v] ELSE
    LET a1  == vfscore_fstab_next_volume_arg(v, 1)
        vv1 == [old EXCEPT !.sdev = Ptr(k, a1.ret)]
    IN
    IF ~UK_ASSERT(a1.ret # 0) THEN [ok |-> FALSE, vv |-> vv1, buf |-> a1.buf] ELSE
    LET a2  == vfscore_fstab_next_volume_arg(a1.buf, a1.pos)
        vv2 == [vv1 EXCEPT !.path = Ptr(k, a2.ret)]
    IN
    IF ~UK_ASSERT(a2.ret # 0) THEN [ok |-> FALSE, vv |-> vv2, buf |-> a2.buf] ELSE
    LET a3  == vfscore_fstab_next_volume_arg(a2.buf, a2.pos)
        vv3 == [vv2 EXCEPT !.drv = Ptr(k, a3.ret)]
    IN
    IF ~UK_ASSERT(a3.ret # 0) THEN [ok |-> FALSE, vv |-> vv3, buf |-> a3.buf] ELSE
    IF a3.pos = 0 THEN [ok |-> TRUE, vv |-> vv3, buf |-> a3.buf]
    ELSE fetch_optional(a3.buf, a3.pos, k, vv3)

\* -------------------------------------------------------------------- state

VARIABLES
    config,         \* build choices: [EINITRD, FSTAB]
    rootcfg,        \* CONFIG_LIBVFSCORE_ROOTDEV/ROOTFS/ROOTFLAGS/ROOTOPTS
    vfscore_fstab,  \* slot -> buffer of the entry string, << >> for NULL
    fstab0,         \* vfscore_fstab as it was when vfscore_automount started
    vv,             \* the struct vfscore_volume local of the fstab loop
    i,              \* loop index of vfscore_automount_fstab_volumes
    pc,             \* position of the single boot thread
    ctx,            \* "root" or "fstab": the caller of the current dispatch
    rc,             \* status handed back by the last dispatch
    ret,            \* return value of vfscore_automount (when pc = "done")
    phaseB,         \* vfscore_automount_fstab_volumes has been called
    calls           \* calls made so far: parser runs and external primitives

vars == <<config, rootcfg, vfscore_fstab, fstab0, vv, i, pc, ctx, rc, ret,
          phaseB, calls>>

ROOT == 0 - 1
Slots == 0..(FSTAB_SIZE - 1)

\* Status codes of the external primitives: 0 is success, the primitive
\* decides which non-zero value it reports.
MountStatus   == {0 - 1, 0, 1}
ExtractStatus == {0 - 1, 0, 1}
\* ukplat_memregion_find_initrd0: negative when no region is found.
LookupStatus  == {0 - 1, 0}

\* Entry strings of the tables of Init.
E_three  == <<"d", ":", "/", "m", ":", "f", "s">>
E_five   == <<"d", ":", "/", "m", ":", "f", "s", ":", "0", "x", "1", "0", ":",
              "r", "o">>
E_initrd == <<":", "/", "i", ":", "i", "n", "i", "t", "r", "d">>
E_two    == <<"d", ":", "/", "m">>
E_six    == <<"d", ":", "/", "m", ":", "f", "s", ":", "1", ":", "a", ":", "b",
              ":", "c">>
E_one    == <<"d">>
Entries  == {E_three, E_five, E_initrd, E_two, E_six, E_one}

\* Characters of the entry strings of InitStr.
Alphabet == {SEP, "a", "1"}
Strings  == UNION {[1..n -> Alphabet] : n \in 0..MaxLen}

Buffer(s) == s \o <<NUL>>

RootCfgs ==
    {[sdev |-> d[1], drv |-> drv, flags |-> d[2], opts |-> d[3]] :
        drv \in {<< >>, <<"f", "s">>, INITRD},
        d \in {<< << >>, 0, << >> >>, << <<"r">>, 1, <<"r", "w">> >>}}

\* Buildable choices of (EINITRD, FSTAB).
Configs ==
    {c \in [EINITRD : BOOLEAN, FSTAB : BOOLEAN] : ~(c.EINITRD /\ c.FSTAB)}

\* An automatic variable without initialiser holds an indeterminate value.
JunkPtr == [buf |-> JunkBuf, off |-> 1]
Uninitialised ==
    {[sdev |-> NULL, path |-> NULL, drv |-> NULL, flags |-> 0, opts |-> NULL],
     [sdev |-> JunkPtr, path |-> JunkPtr, drv |-> JunkPtr, flags |-> 7,
      opts |-> JunkPtr]}

InitRest ==
    /\ rootcfg \in RootCfgs
    /\ fstab0 = vfscore_fstab
    /\ vv \in Uninitialised
    /\ i = 0
    /\ pc = "rootfs"
    /\ ctx = "root"
    /\ rc = 0
    /\ ret = 0
    /\ phaseB = FALSE
    /\ calls = << >>

Init ==
    /\ config \in Configs
    /\ vfscore_fstab \in [Slots -> {Buffer(e) : e \in Entries} \cup {<< >>}]
    /\ ~config.FSTAB => \A k \in Slots : vfscore_fstab[k] = << >>
    /\ InitRest

\* One entry string of every shape over Alphabet in slot 0.
InitStr ==
    /\ config \in Configs
    /\ IF config.FSTAB
       THEN \E s \in Strings :
              vfscore_fstab = [k \in Slots |-> IF k = 0 THEN Buffer(s)
                                               ELSE << >>]
       ELSE vfscore_fstab = [k \in Slots |-> << >>]
    /\ InitRest
    /\ rootcfg.flags = 0

\* Characters of the flags fields of InitNum.
NumAlphabet == {"0", "1", "8", "x", "X", "a"}
NumStrings  == UNION {[1..n -> NumAlphabet] : n \in 0..MaxDigits}

\* source:path:driver:flags:options
Entry5(f1, f2, f3, f4, f5) ==
    f1 \o <<SEP>> \o f2 \o <<SEP>> \o f3 \o <<SEP>> \o f4 \o <<SEP>> \o f5

\* A five-field entry with every flags field over NumAlphabet in slot 0.
InitNum ==
    /\ config \in Configs
    /\ IF config.FSTAB
       THEN \E f4 \in NumStrings, f5 \in {<<"r", "o">>, <<"a", ",", "b">>} :
              vfscore_fstab =
                  [k \in Slots |->
                      IF k = 0
                      THEN Buffer(Entry5(<<"d">>, <<"/", "m">>, <<"f", "s">>,
                                         f4, f5))
                      ELSE << >>]
       ELSE vfscore_fstab = [k \in Slots |-> << >>]
    /\ InitRest
    /\ rootcfg.flags = 0

\* Entries of the tables of InitFair: one per course an entry can take
\* (generic, initrd, malformed).
FairEntries == {E_five, E_initrd, E_two}

\* Every table over FairEntries under every route of the root.
InitFair ==
    /\ config \in Configs
    /\ vfscore_fstab \in [Slots -> {Buffer(e) : e \in FairEntries} \cup {<< >>}]
    /\ ~config.FSTAB => \A k \in Slots : vfscore_fstab[k] = << >>
    /\ InitRest
    /\ rootcfg.flags = 0
    /\ vv.flags = 0

\* ------------------------------------------------------------------ helpers

Mem(b) == IF b = JunkBuf THEN JunkMem ELSE vfscore_fstab[b]

\* The string a char pointer designates now.
Deref(p) == IF p = NULL THEN NoStr ELSE CStrAt(Mem(p.buf), p.off)

Call(op, who, sdev, path, drv, flags, opts, r) ==
    [op |-> op, who |-> who, sdev |-> sdev, path |-> path, drv |-> drv,
     flags |-> flags, opts |-> opts, rc |-> r]

Who == IF ctx = "root" THEN ROOT ELSE i

\* Where a dispatch returns to.
Return == IF ctx = "root" THEN "root_ret" ELSE "fstab_ret"

\* Target path handed to do_mount_initrd.
InitrdPath == IF ctx = "root" THEN <<"/">> ELSE Deref(vv.path)

\* --------------------------------------------------------------- operations

\* Variant: the empty driver is not singled out.
rootfs_route_noskip(drv) ==
    IF HasInitrdPrefix(drv) THEN "initrd" ELSE "mount"

\* The strategy of vfscore_automount_rootfs for the configured driver.
rootfs_route(drv) ==
    IF drv = << >> THEN "skip"
    ELSE IF HasInitrdPrefix(drv) THEN "initrd"
    ELSE "mount"

\* Variant: the embedded image is not looked at.
rootfs_strategy_configured(cfg, drv) == rootfs_route(drv)

\* Which vfscore_automount_rootfs the build holds: the embedded image one
\* (lines 187-197) or the configured one (lines 221-266) and its route.
rootfs_strategy(cfg, drv) ==
    IF cfg.EINITRD THEN "einitrd" ELSE rootfs_route(drv)

\* vfscore_automount_rootfs up to its first external call.  With EINITRD the
\* embedded range goes to do_mount_initrd; otherwise the configured driver
\* decides between no mount, the initrd region and the generic mount.
vfscore_automount_rootfs ==
    /\ pc = "rootfs"
    /\ CASE rootfs_strategy(config, rootcfg.drv) = "einitrd" ->
                pc' = "ramfs_mount" /\ rc' = rc
         [] rootfs_strategy(config, rootcfg.drv) = "skip" ->
                pc' = "root_ret" /\ rc' = 0
         [] rootfs_strategy(config, rootcfg.drv) = "initrd" ->
                pc' = "find_initrd0" /\ rc' = rc
         [] OTHER ->
                pc' = "mount" /\ rc' = rc
    /\ UNCHANGED <<config, rootcfg, vfscore_fstab, fstab0, vv, i, ctx, ret,
                   phaseB, calls>>

\* Variant: in the fstab loop the generic mount follows the initrd route
\* (the "else" of line 287 is missing).
InitrdReturn_fallthrough == IF ctx = "root" THEN "root_ret" ELSE "mount"

\* Where vfscore_mount_initrd_volume / do_mount_initrd return to.
InitrdReturn == Return

\* Variant: only a negative status of the ramfs mount counts as a failure.
ramfs_mount_failed_neg(r) == r < 0

\* The test of the ramfs mount's status in do_mount_initrd.
ramfs_mount_failed(r) == r # 0

\* Variant: the sign of the test is the wrong way round.
initrd_lookup_failed_pos(r) == r > 0

\* The test of the region lookup's status in vfscore_mount_initrd_volume.
initrd_lookup_failed(r) == r < 0

\* vfscore_mount_initrd_volume: look the first initrd region up; -1 without
\* one, otherwise on to do_mount_initrd with the volume's path.
vfscore_mount_initrd_volume ==
    /\ pc = "find_initrd0"
    /\ \E r \in LookupStatus :
         /\ calls' = Append(calls, Call("find_initrd0", Who, NoStr, NoStr,
                                        NoStr, 0, NoStr, r))
         /\ IF initrd_lookup_failed(r)
            THEN pc' = InitrdReturn /\ rc' = 0 - 1
            ELSE pc' = "ramfs_mount" /\ rc' = rc
    /\ UNCHANGED <<config, rootcfg, vfscore_fstab, fstab0, vv, i, ctx, ret,
                   phaseB>>

\* do_mount_initrd, step 1: mount("", path, "ramfs", 0x0, NULL).
do_mount_initrd_mount ==
    /\ pc = "ramfs_mount"
    /\ \E r \in MountStatus :
         /\ calls' = Append(calls, Call("mount", Who, << >>, InitrdPath,
                                        <<"r", "a", "m", "f", "s">>, 0, NoStr,
                                        r))
         /\ IF ramfs_mount_failed(r)
            THEN pc' = InitrdReturn /\ rc' = 0 - 1
            ELSE pc' = "extract" /\ rc' = rc
    /\ UNCHANGED <<config, rootcfg, vfscore_fstab, fstab0, vv, i, ctx, ret,
                   phaseB>>

\* do_mount_initrd, step 2: ukcpio_extract(path, initrd, len).
do_mount_initrd_extract ==
    /\ pc = "extract"
    /\ \E r \in ExtractStatus :
         /\ calls' = Append(calls, Call("extract", Who, NoStr, InitrdPath,
                                        NoStr, 0, NoStr, r))
         /\ rc' = IF r # 0 THEN 0 - 1 ELSE 0
    /\ pc' = InitrdReturn
    /\ UNCHANGED <<config, rootcfg, vfscore_fstab, fstab0, vv, i, ctx, ret,
                   phaseB>>

\* The five arguments vfscore_mount_volume passes to mount().
MountArgs ==
    IF ctx = "root"
    THEN [sdev |-> rootcfg.sdev, path |-> <<"/">>, drv |-> rootcfg.drv,
          flags |-> rootcfg.flags, opts |-> rootcfg.opts]
    ELSE [sdev |-> Deref(vv.sdev), path |-> Deref(vv.path),
          drv |-> Deref(vv.drv), flags |-> vv.flags, opts |-> Deref(vv.opts)]

\* Variant: the status is reduced to -1 / 0 as do_mount_initrd does.
mount_volume_status_normalised(r) == IF r # 0 THEN 0 - 1 ELSE 0

\* What vfscore_mount_volume returns for the status r of mount().
mount_volume_status(r) == r

\* vfscore_mount_volume: mount() with the descriptor's fields, status as is.
vfscore_mount_volume ==
    /\ pc = "mount"
    /\ \E r \in MountStatus :
         /\ calls' = Append(calls, Call("mount", Who, MountArgs.sdev,
                                        MountArgs.path, MountArgs.drv,
                                        MountArgs.flags, MountArgs.opts, r))
         /\ rc' = mount_volume_status(r)
    /\ pc' = Return
    /\ UNCHANGED <<config, rootcfg, vfscore_fstab, fstab0, vv, i, ctx, ret,
                   phaseB>>

\* The test vfscore_automount makes on the root status.
root_failed(r) == r < 0

\* vfscore_automount after vfscore_automount_rootfs returned: a failed root
\* is returned, otherwise vfscore_automount_fstab_volumes is entered (which
\* is a plain "return 0" without CONFIG_LIBVFSCORE_FSTAB).
vfscore_automount ==
    /\ pc = "root_ret"
    /\ IF root_failed(rc)
       THEN /\ ret' = rc
            /\ pc' = "done"
            /\ UNCHANGED <<phaseB, ctx, i>>
       ELSE /\ phaseB' = TRUE
            /\ IF config.FSTAB
               THEN /\ pc' = "fstab_loop"
                    /\ ctx' = "fstab"
                    /\ i' = 0
                    /\ ret' = ret
               ELSE /\ pc' = "done"
                    /\ ret' = 0
                    /\ UNCHANGED <<ctx, i>>
    /\ UNCHANGED <<config, rootcfg, vfscore_fstab, fstab0, vv, rc, calls>>

\* Variant: only the capacity ends the loop.
fstab_loop_cond_nonull(idx, tab) == idx < FSTAB_SIZE

\* The loop condition of vfscore_automount_fstab_volumes.
fstab_loop_cond(idx, tab) == idx < FSTAB_SIZE /\ tab[idx] # << >>

\* One turn of the loop up to the dispatch: the loop test, then
\* vfscore_fstab_fetch_volume_args on the slot (p its result, m the table
\* it leaves, d the driver string) and the choice of the route.
vfscore_automount_fstab_volumes ==
    /\ pc = "fstab_loop"
    /\ IF fstab_loop_cond(i, vfscore_fstab)
       THEN \E p \in {vfscore_fstab_fetch_volume_args(vfscore_fstab[i], i,
                                                        vv)} :
            \E m \in {[vfscore_fstab EXCEPT ![i] = p.buf]} :
            \E d \in {IF ~p.ok THEN NoStr
                       ELSE CStrAt(m[i], p.vv.drv.off)} :
                /\ vfscore_fstab' = m
                /\ vv' = p.vv
                /\ calls' = Append(calls, Call("parse", i, NoStr, NoStr,
                                               NoStr, 0, NoStr,
                                               IF p.ok THEN 0 ELSE 0 - 1))
                /\ pc' = IF ~p.ok THEN "assert_failed"
                         ELSE IF HasInitrdPrefix(d) THEN "find_initrd0"
                         ELSE "mount"
                /\ ret' = ret
       ELSE /\ ret' = 0
            /\ pc' = "done"
            /\ UNCHANGED <<vfscore_fstab, vv, calls>>
    /\ UNCHANGED <<config, rootcfg, fstab0, i, ctx, rc, phaseB>>

\* Variant: only a negative status counts as a failure.
fstab_failed_neg(r) == r < 0

\* Variant: the loop index is not advanced.
next_index_same(idx) == idx

\* The i++ of the fstab loop.
next_index(idx) == idx + 1

\* The test of a dispatch's status in the fstab loop.
fstab_failed(r) == r # 0

\* The rest of the loop body: return a failed status, else the next slot.
vfscore_automount_fstab_check ==
    /\ pc = "fstab_ret"
    /\ IF fstab_failed(rc)
       THEN /\ ret' = rc
            /\ pc' = "done"
            /\ i' = i
       ELSE /\ i' = next_index(i)
            /\ pc' = "fstab_loop"
            /\ ret' = ret
    /\ UNCHANGED <<config, rootcfg, vfscore_fstab, fstab0, vv, ctx, rc,
                   phaseB, calls>>

Next ==
    \/ vfscore_automount_rootfs
    \/ vfscore_mount_initrd_volume
    \/ do_mount_initrd_mount
    \/ do_mount_initrd_extract
    \/ vfscore_mount_volume
    \/ vfscore_automount
    \/ vfscore_automount_fstab_volumes
    \/ vfscore_automount_fstab_check

Spec == Init /\ [][Next]_vars

\* vfscore_automount runs on: no step of it waits for anything.
SpecFair == InitFair /\ [][Next]_vars /\ WF_vars(Next)

\* The same program started on every entry string over Alphabet.
SpecStr == InitStr /\ [][Next]_vars

\* The same program started on five-field entries with every flags field.
SpecNum == InitNum /\ [][Next]_vars

TypeOK ==
    /\ pc \in {"rootfs", "find_initrd0", "ramfs_mount", "extract", "mount",
               "root_ret", "fstab_loop", "fstab_ret", "done", "assert_failed"}
    /\ ctx \in {"root", "fstab"}
    /\ i \in 0..FSTAB_SIZE
    /\ phaseB \in BOOLEAN

\* ------------------------------------------------ vocabulary of the claims

CallIdx == 1..Len(calls)

\* The entry string slot k held when vfscore_automount started.
Orig(k) == SubSeq(fstab0[k], 1, Len(fstab0[k]) - 1)

Present(k) == fstab0[k] # << >>

\* Offsets of the separators of s, and the offset of the n-th one (0 for
\* n = 0, one past the end when s has fewer than n).
Cols(s) == {j \in 1..Len(s) : s[j] = SEP}
Colons(s) == Cardinality(Cols(s))
ColAt(s, n) ==
    IF n = 0 THEN 0
    ELSE IF n > Colons(s) THEN Len(s) + 1
    ELSE CHOOSE c \in Cols(s) : Cardinality({j \in Cols(s) : j <= c}) = n

\* The n-th colon-separated field of s, and what follows the n-th separator.
Field(s, n) == SubSeq(s, ColAt(s, n - 1) + 1, ColAt(s, n) - 1)
After(s, n) == SubSeq(s, ColAt(s, n) + 1, Len(s))

\* A call of a primitive that reported a failure.
FailedCall(c) ==
    \/ c.op = "find_initrd0" /\ c.rc < 0
    \/ c.op \in {"mount", "extract"} /\ c.rc # 0

IsPrimitive(c) == c.op \in {"mount", "find_initrd0", "extract"}

Parsed(k) == \E n \in CallIdx : calls[n].op = "parse" /\ calls[n].who = k

\* Slot k has been handed to a primitive.
Dispatched(k) == \E n \in CallIdx : IsPrimitive(calls[n]) /\ calls[n].who = k

RootFailed == \E n \in CallIdx : calls[n].who = ROOT /\ FailedCall(calls[n])

Terminal == pc \in {"done", "assert_failed"}

\* ------------------------------------------------------------------- claims

\* C1: once the dispatch of table entry k has reported a failure, nothing
\* further is called (no later entry is parsed or dispatched), the loop
\* stops, and vfscore_automount returns that non-zero status.
C1_FailFast ==
    \A n \in CallIdx :
        (calls[n].who \in Slots /\ FailedCall(calls[n])) =>
            /\ n = Len(calls)
            /\ pc \in {"fstab_ret", "done"}
            /\ rc # 0
            /\ \A k \in Slots : k > calls[n].who => ~Parsed(k) /\ ~Dispatched(k)
            /\ pc = "done" => ret = rc

\* Three entries, the second one fails: two entries dispatched, the third
\* never parsed, the failure returned.
C1_Witness ==
    /\ pc = "done"
    /\ \A k \in 0..2 : Present(k)
    /\ Dispatched(0) /\ Dispatched(1) /\ ~Parsed(2) /\ ~Dispatched(2)
    /\ FailedCall(calls[Len(calls)]) /\ calls[Len(calls)].who = 1
    /\ ret # 0

\* C2 (as claimed): whenever a primitive called for the root reported a
\* failure, Phase B never runs, no table entry is parsed or dispatched, and
\* vfscore_automount returns a failure.
C2_RootFailureShortCircuits ==
    RootFailed =>
        /\ ~phaseB
        /\ \A n \in CallIdx : calls[n].who = ROOT
        /\ pc = "done" => ret # 0

\* C3 (as claimed): vfscore_automount returns 0 exactly when no primitive
\* reported a failure during the run.
C3_SuccessIffNoFailure ==
    pc = "done" => (ret = 0 <=> \A n \in CallIdx : ~FailedCall(calls[n]))

\* C4 (as claimed): every mount() made for a table entry with exactly three
\* fields gets flags 0 and no options.
C4_ThreeFieldDefaults ==
    \A n \in CallIdx :
        (/\ calls[n].op = "mount"
         /\ calls[n].who \in Slots
         /\ Colons(Orig(calls[n].who)) = 2) =>
            calls[n].flags = 0 /\ calls[n].opts = NoStr

\* Slot k goes to the mount dispatcher (its driver field has no "initrd"
\* prefix).
StartsWith(s, p) == Len(s) >= Len(p) /\ SubSeq(s, 1, Len(p)) = p
Generic(k) == ~StartsWith(Field(Orig(k), 3), INITRD)

\* C5 (as claimed): when the fifth field of an entry is present and not
\* empty, the options passed to mount() are everything after the fourth
\* separator.
C5_OptionsWholeSuffix ==
    \A n \in CallIdx :
        (/\ calls[n].op = "mount"
         /\ calls[n].who \in Slots
         /\ Generic(calls[n].who)
         /\ Colons(Orig(calls[n].who)) >= 4
         /\ Field(Orig(calls[n].who), 5) # << >>) =>
            calls[n].opts = After(Orig(calls[n].who), 4)

\* C5 (amended): when the fifth field of an entry is present and not empty,
\* the options passed to mount() are the text after the fourth separator up
\* to the next separator, or up to the end of the entry when there is none.
C5_OptionsUpToNextSeparator ==
    \A n \in CallIdx :
        (/\ calls[n].op = "mount"
         /\ calls[n].who \in Slots
         /\ Generic(calls[n].who)
         /\ Colons(Orig(calls[n].who)) >= 4
         /\ Field(Orig(calls[n].who), 5) # << >>) =>
            calls[n].opts = Field(Orig(calls[n].who), 5)

\* An entry whose options hold a separator has been mounted with the
\* options cut at it.
C5_Witness ==
    /\ pc = "done"
    /\ \E n \in CallIdx :
         /\ calls[n].op = "mount"
         /\ calls[n].who = 0
         /\ Colons(Orig(0)) >= 5
         /\ Field(Orig(0), 5) # << >>
         /\ calls[n].opts = Field(Orig(0), 5)
         /\ calls[n].opts # After(Orig(0), 4)

\* C6: the parse of an entry with fewer than two separators ends in the
\* failed mandatory-field assertion, and it is the last call of the run: no
\* primitive is called for that entry or for a later one.
C6_MalformedEntryStops ==
    \A n \in CallIdx :
        (calls[n].op = "parse" /\ Colons(Orig(calls[n].who)) < 2) =>
            /\ pc = "assert_failed"
            /\ calls[n].rc < 0
            /\ n = Len(calls)
            /\ \A k \in Slots : k >= calls[n].who => ~Dispatched(k)

\* A malformed second entry stopped the run after the first was mounted,
\* with a third entry left behind it.
C6_Witness ==
    /\ pc = "assert_failed"
    /\ Dispatched(0)
    /\ Parsed(1) /\ Colons(Orig(1)) < 2
    /\ Present(2) /\ ~Parsed(2)

\* The buffer b after the tokenizer ran over it: its first five separators
\* overwritten by terminators.
Tokenised(b) ==
    [j \in 1..Len(b) |->
        IF b[j] = SEP /\ Cardinality({m \in 1..j : b[m] = SEP}) <= 5
        THEN NUL ELSE b[j]]

\* C7 (as claimed): when vfscore_automount has ended, the table is what it
\* was when it started.
C7_TableUnchanged == Terminal => vfscore_fstab = fstab0

\* C7 (amended): the orchestrator never changes which slots are present;
\* an entry that was not parsed keeps its characters, and a parsed entry
\* differs from its original only in that its first five separators (all
\* of them when it has fewer) are overwritten by string terminators.
C7_OnlySeparatorsOverwritten ==
    \A k \in Slots :
        /\ (vfscore_fstab[k] = << >>) = (fstab0[k] = << >>)
        /\ vfscore_fstab[k] = IF Parsed(k) THEN Tokenised(fstab0[k])
                              ELSE fstab0[k]

\* A run ended with a parsed entry of six separators, five of them gone, and
\* an entry that was never parsed.
C7_Witness ==
    /\ Terminal
    /\ Parsed(0) /\ Colons(Orig(0)) = 6
    /\ vfscore_fstab[0] # fstab0[0]
    /\ Colons(vfscore_fstab[0]) = 1
    /\ Present(1) /\ ~Parsed(1)

\* First absent slot of the table, the capacity when every slot is used.
FirstAbsent == Min({k \in Slots : ~Present(k)} \cup {FSTAB_SIZE})

\* C8: nothing is ever parsed or dispatched at or after the first absent
\* slot; a Phase B in which no dispatch failed ends with 0 having parsed
\* exactly the entries before that slot (none for an empty table).
C8_StopsAtFirstAbsent ==
    /\ \A n \in CallIdx : calls[n].who # ROOT => calls[n].who < FirstAbsent
    /\ (/\ pc = "done"
        /\ phaseB
        /\ \A n \in CallIdx : calls[n].who \in Slots => ~FailedCall(calls[n]))
            => /\ ret = 0
               /\ {k \in Slots : Parsed(k)} = 0..(FirstAbsent - 1)
               /\ {k \in Slots : Dispatched(k)} = 0..(FirstAbsent - 1)
    /\ FirstAbsent = 0 => \A n \in CallIdx : calls[n].who = ROOT

\* Phase B ended with success at an absent slot that has an entry after it.
C8_Witness ==
    /\ pc = "done" /\ ret = 0
    /\ Present(0) /\ ~Present(1) /\ Present(2)
    /\ Dispatched(0) /\ ~Parsed(2)

\* C9: without the embedded image and with an empty root driver, no
\* primitive is called for the root, the root status is 0, and Phase B is
\* entered.
C9_EmptyDriverSkipsRoot ==
    (~config.EINITRD /\ rootcfg.drv = << >>) =>
        /\ \A n \in CallIdx : calls[n].who # ROOT
        /\ pc = "root_ret" => rc = 0
        /\ pc \notin {"rootfs", "root_ret"} => phaseB

\* Root skipped although a device and options are configured, and an entry
\* of the table mounted afterwards.
C9_Witness ==
    /\ ~config.EINITRD
    /\ rootcfg.drv = << >> /\ rootcfg.sdev # << >> /\ rootcfg.opts # << >>
    /\ pc = "done" /\ ret = 0
    /\ Dispatched(0)

\* The region lookup for the root reported that there is no initrd.
RootInitrdMissing ==
    /\ ~config.EINITRD
    /\ HasInitrdPrefix(rootcfg.drv)
    /\ \E n \in CallIdx :
         calls[n].who = ROOT /\ calls[n].op = "find_initrd0" /\ calls[n].rc < 0

\* C10: an "initrd" root without an initrd region fails with no call of
\* mount() or of the extraction, Phase B is not entered, and
\* vfscore_automount returns the failure.
C10_InitrdUnavailable ==
    RootInitrdMissing =>
        /\ \A n \in CallIdx : calls[n].op \notin {"mount", "extract"}
        /\ \A n \in CallIdx : calls[n].who = ROOT
        /\ ~phaseB
        /\ pc \in {"root_ret", "done"}
        /\ pc = "root_ret" => rc < 0
        /\ pc = "done" => ret < 0

\* The run ended on the missing region while the table holds an entry.
C10_Witness ==
    /\ RootInitrdMissing
    /\ pc = "done"
    /\ Present(0)

\* A C integer constant without sign or suffix: 0x/0X and hexadecimal
\* digits, 0 and octal digits, or decimal digits not starting with 0.
IsNumeral(s) ==
    \/ /\ Len(s) >= 3
       /\ s[1] = "0" /\ s[2] \in {"x", "X"}
       /\ \A j \in 3..Len(s) : DigitVal(s[j]) < 16
    \/ /\ Len(s) >= 1
       /\ s[1] = "0"
       /\ \A j \in 1..Len(s) : DigitVal(s[j]) < 8
    \/ /\ Len(s) >= 1
       /\ DigitVal(s[1]) \in 1..9
       /\ \A j \in 1..Len(s) : DigitVal(s[j]) < 10

\* Sum of digit j..Len(d) of d, each weighted by its place in the base.
RECURSIVE PlaceSum(_, _, _)
PlaceSum(d, base, j) ==
    IF j > Len(d) THEN 0
    ELSE DigitVal(d[j]) * base ^ (Len(d) - j) + PlaceSum(d, base, j + 1)

\* The integer a numeral denotes.
NumeralValue(s) ==
    IF Len(s) >= 2 /\ s[2] \in {"x", "X"} THEN PlaceSum(s, 16, 3)
    ELSE IF s[1] = "0" THEN PlaceSum(s, 8, 1)
    ELSE PlaceSum(s, 10, 1)

\* The fstab loop has parsed slot i and is about to dispatch it.
JustParsed == ctx = "fstab" /\ pc \in {"mount", "find_initrd0"}

\* C11: an entry of five colon-separated fields, the fourth a numeral and
\* the fifth not empty, is parsed into source = field 1, path = field 2,
\* driver = field 3, flags = the value of field 4 (hexadecimal after 0x/0X,
\* octal after a leading 0, decimal otherwise) and options = field 5.
C11_FiveFields ==
    (/\ JustParsed
     /\ Colons(Orig(i)) = 4
     /\ IsNumeral(Field(Orig(i), 4))
     /\ Field(Orig(i), 5) # << >>) =>
        /\ Deref(vv.sdev) = Field(Orig(i), 1)
        /\ Deref(vv.path) = Field(Orig(i), 2)
        /\ Deref(vv.drv) = Field(Orig(i), 3)
        /\ vv.flags = NumeralValue(Field(Orig(i), 4))
        /\ Deref(vv.opts) = Field(Orig(i), 5)

\* "d:/m:fs:0x10:ro" parsed into {d, /m, fs, 16, ro}.
C11_Witness ==
    /\ JustParsed
    /\ i = 0
    /\ Orig(0) = Entry5(<<"d">>, <<"/", "m">>, <<"f", "s">>,
                        <<"0", "x", "1", "0">>, <<"r", "o">>)
    /\ vv.flags = 16
    /\ Deref(vv.opts) = <<"r", "o">>
    /\ Deref(vv.drv) = <<"f", "s">>

\* C12: in an entry with a third separator, an empty fourth field gives
\* flags 0 and the fifth field, when not empty, is still the options; an
\* empty or missing fifth field gives NULL options, never an empty string.
C12_EmptyOptionalFields ==
    (JustParsed /\ Colons(Orig(i)) >= 3) =>
        /\ Field(Orig(i), 4) = << >> => vv.flags = 0
        /\ (Field(Orig(i), 4) = << >> /\ Field(Orig(i), 5) # << >>) =>
               Deref(vv.opts) = Field(Orig(i), 5)
        /\ Field(Orig(i), 5) = << >> =>
               vv.opts = NULL /\ Deref(vv.opts) # << >>

\* An entry with an empty flags field and options, parsed.
C12_Witness ==
    /\ JustParsed
    /\ i = 0
    /\ Colons(Orig(0)) = 4
    /\ Field(Orig(0), 3) # << >>
    /\ Field(Orig(0), 4) = << >>
    /\ Field(Orig(0), 5) # << >>
    /\ vv.flags = 0
    /\ Deref(vv.opts) = Field(Orig(0), 5)

\* C13 (as claimed): every mount() and every extraction is called with a
\* path that is not empty, and every mount() with a driver that is not
\* empty.
C13_PathAndDriverNonEmpty ==
    \A n \in CallIdx :
        /\ calls[n].op \in {"mount", "extract"} =>
               calls[n].path # << >> /\ calls[n].path # NoStr
        /\ calls[n].op = "mount" =>
               calls[n].drv # << >> /\ calls[n].drv # NoStr

\* The target w (ROOT or a slot) goes through the initrd loader.
LoaderRouted(w) ==
    IF w = ROOT THEN config.EINITRD \/ StartsWith(rootcfg.drv, INITRD)
    ELSE ~Generic(w)

\* The mount point of target w.
TargetPath(w) == IF w = ROOT THEN <<"/">> ELSE Field(Orig(w), 2)

RAMFS == <<"r", "a", "m", "f", "s">>

\* Call c is step 1 of the initrd loader.
RamfsCall(c) == c.op = "mount" /\ LoaderRouted(c.who)

AfterDispatch == pc \in {"root_ret", "fstab_ret", "done"}

\* C14: the loader's mount is mount("", path, "ramfs", 0, NULL); the
\* extraction follows it exactly when it returned 0; the loader's status is
\* 0 exactly when both returned 0 (-1 otherwise); a failed extraction is the
\* last call of the run (nothing undoes the mount).
C14_LoaderProtocol ==
    \A n \in CallIdx :
        /\ RamfsCall(calls[n]) =>
             /\ calls[n].sdev = << >>
             /\ calls[n].path = TargetPath(calls[n].who)
             /\ calls[n].drv = RAMFS
             /\ calls[n].flags = 0
             /\ calls[n].opts = NoStr
             /\ calls[n].rc = 0 =>
                  IF n = Len(calls) THEN pc = "extract"
                  ELSE /\ calls[n + 1].op = "extract"
                       /\ calls[n + 1].who = calls[n].who
                       /\ calls[n + 1].path = calls[n].path
             /\ calls[n].rc # 0 =>
                  n = Len(calls) /\ AfterDispatch /\ rc = 0 - 1
        /\ calls[n].op = "extract" =>
             /\ n > 1
             /\ RamfsCall(calls[n - 1])
             /\ calls[n - 1].rc = 0
             /\ calls[n - 1].who = calls[n].who
             /\ calls[n].rc # 0 =>
                  n = Len(calls) /\ AfterDispatch /\ rc = 0 - 1
             /\ (/\ calls[n].rc = 0
                 /\ n = Len(calls)
                 /\ pc \in {"root_ret", "fstab_ret"}) => rc = 0

\* The extraction for a table entry failed after its ramfs mount succeeded,
\* and the run ended there.
C14_Witness ==
    /\ pc = "done"
    /\ Len(calls) >= 2
    /\ calls[Len(calls)].op = "extract"
    /\ calls[Len(calls)].who = 0
    /\ calls[Len(calls)].rc # 0
    /\ RamfsCall(calls[Len(calls) - 1])
    /\ calls[Len(calls) - 1].rc = 0
    /\ ret = 0 - 1

IsPrimitiveOf(c, k) == c.who = k /\ IsPrimitive(c)

\* The primitive calls made for slot k, in order.
EntryCalls(k) == SelectSeq(calls, LAMBDA c : IsPrimitiveOf(c, k))

ParsedOk(k) ==
    \E n \in CallIdx :
        calls[n].op = "parse" /\ calls[n].who = k /\ calls[n].rc = 0

\* C15: a parsed entry whose driver field starts with "initrd" only gets
\* the region lookup, then mount("", path, "ramfs", 0, NULL), then the
\* extraction to its path, and a failed lookup ends the run with no mount for
\* it; any other parsed entry only gets one mount() with its source, path
\* and driver fields and the flags and options of the descriptor.
C15_Routing ==
    /\ JustParsed => ((pc = "mount") = Generic(i))
    /\ \A k \in Slots :
         ParsedOk(k) =>
            LET L == EntryCalls(k) IN
            IF Generic(k)
            THEN /\ Len(L) <= 1
                 /\ Len(L) = 1 =>
                      /\ L[1].op = "mount"
                      /\ L[1].sdev = Field(Orig(k), 1)
                      /\ L[1].path = Field(Orig(k), 2)
                      /\ L[1].drv = Field(Orig(k), 3)
                      /\ i = k =>
                           /\ L[1].flags = vv.flags
                           /\ L[1].opts = Deref(vv.opts)
            ELSE /\ Len(L) <= 3
                 /\ Len(L) >= 1 => L[1].op = "find_initrd0"
                 /\ (Len(L) >= 1 /\ L[1].rc < 0) =>
                      /\ Len(L) = 1
                      /\ pc \in {"fstab_ret", "done"}
                      /\ rc # 0
                      /\ pc = "done" => ret # 0
                 /\ Len(L) >= 2 =>
                      /\ L[2].op = "mount"
                      /\ L[2].sdev = << >>
                      /\ L[2].path = Field(Orig(k), 2)
                      /\ L[2].drv = RAMFS
                      /\ L[2].drv # Field(Orig(k), 3)
                      /\ L[2].flags = 0
                      /\ L[2].opts = NoStr
                 /\ Len(L) = 3 =>
                      /\ L[3].op = "extract"
                      /\ L[3].path = Field(Orig(k), 2)

\* An "initrd" entry after a mounted generic one found no region: the run
\* ended with no mount for it.
C15_Witness ==
    /\ pc = "done"
    /\ ParsedOk(0) /\ Generic(0) /\ Len(EntryCalls(0)) = 1
    /\ ParsedOk(1) /\ ~Generic(1)
    /\ Len(EntryCalls(1)) = 1
    /\ EntryCalls(1)[1].op = "find_initrd0"
    /\ EntryCalls(1)[1].rc < 0
    /\ ret # 0

ParseCount(k) ==
    Cardinality({n \in CallIdx : calls[n].op = "parse" /\ calls[n].who = k})

\* C16: the calls for the root come before everything done for the table
\* (which starts only once the root step has returned); the table's calls
\* go by ascending slot, every slot parsed at most once and generic ones
\* mounted at most once; and whatever is done for slot j comes after every
\* slot below j was parsed and dispatched without a failed call.
C16_MountOrder ==
    /\ \A n, m \in CallIdx : n < m => calls[n].who <= calls[m].who
    /\ (\E n \in CallIdx : calls[n].who # ROOT) => phaseB
    /\ pc \in {"rootfs", "root_ret"} => \A n \in CallIdx : calls[n].who = ROOT
    /\ \A k \in Slots :
         /\ ParseCount(k) <= 1
         /\ Dispatched(k) => Parsed(k)
         /\ Generic(k) => Len(EntryCalls(k)) <= 1
    /\ \A n \in CallIdx :
         \A k \in Slots :
            k < calls[n].who =>
               /\ ParsedOk(k)
               /\ Dispatched(k)
               /\ \A m \in 1..n : calls[m].who = k => ~FailedCall(calls[m])

\* Root mounted, then the three entries of a full table in order.
C16_Witness ==
    /\ pc = "done"
    /\ \E n \in CallIdx : calls[n].who = ROOT /\ calls[n].op = "mount"
    /\ \A k \in 0..2 : Dispatched(k)
    /\ ret = 0

\* What the loader reports for the status r of its last call.
LoaderStatus(r) == IF r # 0 THEN 0 - 1 ELSE 0

\* C17: with the embedded image the root step's calls and status are a
\* function of the primitives' statuses alone: mount("", "/", "ramfs", 0,
\* NULL), then the extraction to "/" when that returned 0, never a region
\* lookup, and -1 / 0 by the last status.  The configured driver, device,
\* flags and options appear nowhere, so two runs that differ only in them
\* make the same calls and return the same status.
C17_EmbeddedRootIgnoresConfig ==
    config.EINITRD =>
        /\ Len(calls) <= 2
        /\ \A n \in CallIdx :
             /\ calls[n].who = ROOT
             /\ calls[n].path = <<"/">>
             /\ calls[n].op = IF n = 1 THEN "mount" ELSE "extract"
        /\ Len(calls) >= 1 =>
             /\ calls[1].sdev = << >>
             /\ calls[1].drv = RAMFS
             /\ calls[1].flags = 0
             /\ calls[1].opts = NoStr
        /\ Len(calls) = 2 => calls[1].rc = 0
        /\ pc = "rootfs" => calls = << >>
        /\ pc = "ramfs_mount" => calls = << >>
        /\ pc = "extract" => Len(calls) = 1 /\ calls[1].rc = 0
        /\ pc \in {"root_ret", "done"} =>
             /\ Len(calls) >= 1
             /\ Len(calls) = 1 => calls[1].rc # 0
             /\ rc = LoaderStatus(calls[Len(calls)].rc)
        /\ pc = "done" => ret = rc
        /\ pc \in {"rootfs", "ramfs_mount", "extract", "root_ret", "done"}

\* The embedded image mounted and extracted although the configuration
\* names no driver at all.
C17_Witness ==
    /\ config.EINITRD
    /\ rootcfg.drv = << >>
    /\ rootcfg.flags = 1
    /\ pc = "done"
    /\ Len(calls) = 2
    /\ calls[2].op = "extract"
    /\ calls[2].rc = 0
    /\ ret = 0

\* The same with the "initrd" driver configured: still no region lookup.
C17_WitnessInitrdDriver ==
    /\ config.EINITRD
    /\ rootcfg.drv = INITRD
    /\ pc = "done"
    /\ Len(calls) = 1
    /\ calls[1].op = "mount"
    /\ ret = 0 - 1

\* Call c is the mount of vfscore_mount_volume.
GenericMount(c) == c.op = "mount" /\ ~LoaderRouted(c.who)

\* The volume descriptor of target w as its dispatch sees it.
Descriptor(w) ==
    IF w = ROOT
    THEN [sdev |-> rootcfg.sdev, path |-> <<"/">>, drv |-> rootcfg.drv,
          flags |-> rootcfg.flags, opts |-> rootcfg.opts]
    ELSE [sdev |-> Deref(vv.sdev), path |-> Deref(vv.path),
          drv |-> Deref(vv.drv), flags |-> vv.flags, opts |-> Deref(vv.opts)]

FiveArgs(c) ==
    [sdev |-> c.sdev, path |-> c.path, drv |-> c.drv, flags |-> c.flags,
     opts |-> c.opts]

\* C18: a generic mount (the configured root, a non-initrd entry) is the
\* primitive called with the five fields of the descriptor; its caller
\* receives the primitive's status as it is, and vfscore_automount returns
\* the primitive's status of a failed generic entry mount.
C18_PassThrough ==
    \A n \in CallIdx :
        (GenericMount(calls[n]) /\ n = Len(calls)) =>
            /\ FiveArgs(calls[n]) = Descriptor(calls[n].who)
            /\ pc \in {"root_ret", "fstab_ret"} => rc = calls[n].rc
            /\ (/\ pc = "done"
                /\ calls[n].who \in Slots
                /\ calls[n].rc # 0) => ret = calls[n].rc

\* A generic entry mount reported 1 and vfscore_automount returned 1.
C18_Witness ==
    /\ pc = "done"
    /\ calls # << >>
    /\ GenericMount(calls[Len(calls)])
    /\ calls[Len(calls)].who \in Slots
    /\ calls[Len(calls)].rc = 1
    /\ calls[Len(calls)].opts = <<"r", "o">>
    /\ ret = 1

\* Indices of the calls of the mount primitive made for target w.
MountCalls(w) ==
    {n \in CallIdx : calls[n].op = "mount" /\ calls[n].who = w}

AllMountCalls == {n \in CallIdx : calls[n].op = "mount"}

\* At most one mount call per target, none for a slot at or after the
\* terminator, at most 1 + capacity altogether, none after a failed one for
\* the same target.
NoRetry ==
    /\ \A w \in {ROOT} \cup Slots : Cardinality(MountCalls(w)) <= 1
    /\ \A k \in Slots : k >= FirstAbsent => MountCalls(k) = {}
    /\ Cardinality(AllMountCalls) <= 1 + FSTAB_SIZE
    /\ \A n \in AllMountCalls :
         calls[n].rc # 0 =>
            \A m \in AllMountCalls : m > n => calls[m].who # calls[n].who

\* C19: every run of vfscore_automount reaches a terminal state (a return
\* or a failed assertion), and all along it makes at most one mount call
\* per target, at most 1 + FSTAB_SIZE in all, and none for a target whose
\* mount failed.
C19_NoRetryTerminates == [](NoRetry) /\ <>(Terminal)

\* A run that ended having mounted the root and every slot of a full table.
C19_Witness ==
    /\ pc = "done"
    /\ Cardinality(AllMountCalls) = 1 + FSTAB_SIZE
    /\ \A k \in Slots : Cardinality(MountCalls(k)) = 1

====
